---- MODULE Spec2Model ----
(***************************************************************************)
(* Model of scripts/hey_jubilee.py: the wake-word listener's main().       *)
(* One action per statement group of main(); the external libraries        *)
(* (pvporcupine, PvRecorder, pyautogui, time) are modelled by the calls     *)
(* made on them and by a nondeterministic outcome of each call (a return   *)
(* value, an Exception, or a KeyboardInterrupt delivered while blocked in  *)
(* the call).  Time is counted in tenths of a second.                      *)
(***************************************************************************)
EXTENDS Integers, Sequences, FiniteSets, TLC

\* ------------------------------------------------------------------ bounds
\* Largest clock reading, in tenths of a second.
MaxClock == 51
\* Largest number of "match" results the detector gives in one run.
MaxMatches == 3

\* --------------------------------------------------------------- constants
\* DEBOUNCE_SECONDS = 2.0, in tenths of a second.
DEBOUNCE_SECONDS == 20

None == "None"
PLACEHOLDER_KEY == "YOUR_ACCESS_KEY_HERE"
\* Credentials tried: some key, the placeholder, and the empty string.
AccessKeys == {"key", PLACEHOLDER_KEY, ""}
\* Keyword files named on the command line or in JUBILEE_KEYWORD_PATH.
ExistingPaths == {"cli.ppn", "env.ppn"}
CliPaths == {"cli.ppn", "missing.ppn"}
EnvPaths == {"env.ppn"}

\* os.path.exists
PathExists(p) == p \in ExistingPaths

\* Readings of time.time(): every half debounce interval and one tick later,
\* so that elapsed times just below, at and just above the interval occur.
ClockValues == {t \in 0..MaxClock : t % (DEBOUNCE_SECONDS \div 2) \in {0, 1}}

VARIABLES
  pc,                  \* position in main()
  args,                \* argparse namespace (list_devices, access_key, keyword_path, use_jarvis)
  CUSTOM_KEYWORD_PATH, \* module global read from JUBILEE_KEYWORD_PATH
  porcupine,           \* the detector handle: how it was created
  recorder,            \* the PvRecorder: None / constructed / started / stopped
  calls,               \* how often each external call was made
  last_trigger_time,
  audio_frame,         \* None / "unprocessed" (read, not yet given to the detector) / "processed"
  keyword_index,
  current_time,
  clock,               \* the last reading of time.time()
  matches,             \* history: one record per "match" result
  exc,                 \* exception in flight while the finally block runs
  printed              \* messages printed so far

vars == <<pc, args, CUSTOM_KEYWORD_PATH, porcupine, recorder, calls,
          last_trigger_time, audio_frame, keyword_index, current_time, clock, matches,
          exc, printed>>

NoCalls == [create |-> 0, delete |-> 0, PvRecorder |-> 0, start |-> 0,
            stop |-> 0, get_available_devices |-> 0,
            on_wake_word_detected |-> 0]

Called(name) == [calls EXCEPT ![name] = @ + 1]

\* parser.parse_args(): --keyword-path defaults to CUSTOM_KEYWORD_PATH.
ParseArgs(list_devices, access_key, cli_path, env_path, use_jarvis) ==
  [list_devices |-> list_devices,
   access_key   |-> access_key,
   keyword_path |-> IF cli_path = None THEN env_path ELSE cli_path,
   use_jarvis   |-> use_jarvis]

\* The state when main() has parsed its arguments.  The locals of the loop
\* are not bound yet; they are given the values they are first assigned.
\* (A KeyboardInterrupt is modelled where the loop can block: in
\* recorder.read, porcupine.process and on_wake_word_detected.)
Init ==
  /\ pc = "main"
  /\ CUSTOM_KEYWORD_PATH \in EnvPaths \cup {None}
  /\ \E list_devices \in BOOLEAN, access_key \in AccessKeys,
        cli_path \in CliPaths \cup {None}, use_jarvis \in BOOLEAN :
       args = ParseArgs(list_devices, access_key, cli_path,
                        CUSTOM_KEYWORD_PATH, use_jarvis)
  /\ porcupine = [keywords |-> None, keyword_paths |-> None, access_key |-> None]
  /\ recorder = None
  /\ calls = NoCalls
  /\ last_trigger_time = 0
  /\ audio_frame = None
  /\ keyword_index = -1
  /\ current_time = 0
  /\ clock = 0
  /\ matches = <<>>
  /\ exc = None
  /\ printed = {}

\* ------------------------------------------------------------------ set-up

\* Variant: the "return" after list_audio_devices() is missing.
AfterListDevicesFallThrough == "check_key"

\* The "return" that follows list_audio_devices().
AfterListDevices == "returned"

\* if args.list_devices: list_audio_devices(); return
ListDevices ==
  /\ pc = "main"
  /\ IF args.list_devices
       THEN /\ calls' = Called("get_available_devices")
            /\ printed' = printed \cup {"Available audio devices"}
            /\ pc' = AfterListDevices
       ELSE /\ calls' = calls
            /\ printed' = printed
            /\ pc' = "check_key"
  /\ UNCHANGED <<audio_frame, args, CUSTOM_KEYWORD_PATH, porcupine, recorder,
                 last_trigger_time, keyword_index, current_time, clock,
                 matches, exc>>

\* The credential test of main().
NeedsSetup(access_key) == access_key = PLACEHOLDER_KEY

\* if access_key == "YOUR_ACCESS_KEY_HERE": print guidance; return
CheckAccessKey ==
  /\ pc = "check_key"
  /\ IF NeedsSetup(args.access_key)
       THEN /\ printed' = printed \cup {"SETUP REQUIRED"}
            /\ pc' = "returned"
       ELSE /\ printed' = printed
            /\ pc' = "init_porcupine"
  /\ UNCHANGED <<audio_frame, args, CUSTOM_KEYWORD_PATH, porcupine, recorder,
                 calls, last_trigger_time, keyword_index, current_time, clock,
                 matches, exc>>

\* The if / elif / else of the "Initialize Porcupine" block: which model
\* pvporcupine.create is asked for.
KeywordChoice(a, env_path) ==
  IF a.keyword_path # None /\ PathExists(a.keyword_path)
    THEN [keywords |-> None, keyword_paths |-> a.keyword_path]
    ELSE IF a.use_jarvis
      THEN [keywords |-> "jarvis", keyword_paths |-> None]
      ELSE IF env_path # None /\ PathExists(env_path)
        THEN [keywords |-> None, keyword_paths |-> env_path]
        ELSE [keywords |-> "jarvis", keyword_paths |-> None]

CreateOutcomes == {"ok", "PorcupineActivationError",
                   "PorcupineInvalidArgumentError", "Exception"}

\* try: porcupine = pvporcupine.create(...)  except ...: print; return
InitPorcupine ==
  /\ pc = "init_porcupine"
  /\ calls' = Called("create")
  /\ \E outcome \in CreateOutcomes :
       IF outcome = "ok"
         THEN /\ porcupine' = [keywords |-> KeywordChoice(args, CUSTOM_KEYWORD_PATH).keywords,
                               keyword_paths |-> KeywordChoice(args, CUSTOM_KEYWORD_PATH).keyword_paths,
                               access_key |-> args.access_key]
              /\ printed' = printed
              /\ pc' = "init_recorder"
         ELSE /\ porcupine' = porcupine
              /\ printed' = printed \cup {outcome}
              /\ pc' = "returned"
  /\ UNCHANGED <<audio_frame, args, CUSTOM_KEYWORD_PATH, recorder,
                 last_trigger_time, keyword_index, current_time, clock,
                 matches, exc>>

\* Variant: the "return" after porcupine.delete() is missing.
RecorderInitFailedNoReturn(delete_raises) ==
  /\ printed' = printed \cup {"Error initializing audio recorder"}
  /\ calls' = [calls EXCEPT !.PvRecorder = @ + 1, !.delete = @ + 1]
  /\ recorder' = recorder
  /\ IF delete_raises
       THEN pc' = "raised" /\ exc' = "Exception"
       ELSE pc' = "start" /\ exc' = exc

\* The except branch of the "Initialize audio recorder" block:
\* print; porcupine.delete(); return
RecorderInitFailed(delete_raises) ==
  /\ printed' = printed \cup {"Error initializing audio recorder"}
  /\ calls' = [calls EXCEPT !.PvRecorder = @ + 1, !.delete = @ + 1]
  /\ recorder' = recorder
  /\ IF delete_raises
       THEN pc' = "raised" /\ exc' = "Exception"
       ELSE pc' = "returned" /\ exc' = exc

\* try: recorder = PvRecorder(...)  except Exception: ...
InitRecorder ==
  /\ pc = "init_recorder"
  /\ \/ /\ recorder' = "constructed"
        /\ calls' = Called("PvRecorder")
        /\ pc' = "start"
        /\ UNCHANGED <<printed, exc>>
     \/ \E delete_raises \in BOOLEAN : RecorderInitFailed(delete_raises)
  /\ UNCHANGED <<audio_frame, args, CUSTOM_KEYWORD_PATH, porcupine,
                 last_trigger_time, keyword_index, current_time, clock,
                 matches>>

\* Variant: last_trigger_time starts at the debounce interval.
InitialTriggerTimeLate == DEBOUNCE_SECONDS

\* last_trigger_time = 0
InitialTriggerTime == 0

\* print banner; recorder.start(); last_trigger_time = 0
\* recorder.start() is outside any try block: if it raises, the exception
\* leaves main().
StartRecorder ==
  /\ pc = "start"
  /\ printed' = printed \cup {"Listening"}
  /\ \/ /\ recorder' = "started"
        /\ calls' = Called("start")
        /\ last_trigger_time' = InitialTriggerTime
        /\ pc' = "read"
        /\ exc' = exc
     \/ /\ calls' = Called("start")
        /\ recorder' = recorder
        /\ last_trigger_time' = last_trigger_time
        /\ pc' = "raised"
        /\ exc' = "Exception"
  /\ UNCHANGED <<audio_frame, args, CUSTOM_KEYWORD_PATH, porcupine,
                 keyword_index, current_time, clock, matches>>

\* ---------------------------------------------------------------- the loop

\* An exception leaves the while loop.  A KeyboardInterrupt is caught by the
\* except clause (which prints), anything else stays in flight; either way
\* the finally block runs next.
LeaveLoop(kind) ==
  /\ pc' = "finally_stop"
  /\ IF kind = "KeyboardInterrupt"
       THEN /\ printed' = printed \cup {"Stopping Hey Jubilee listener"}
            /\ exc' = None
       ELSE /\ printed' = printed
            /\ exc' = "Exception"

Raised == {"KeyboardInterrupt", "Exception"}

\* Variant: the frame just read is dropped and the next one is read.
ReadFrameDropping ==
  /\ pc = "read"
  /\ \/ pc' = "read" /\ audio_frame' = "unprocessed" /\ UNCHANGED <<printed, exc>>
     \/ (\E kind \in Raised : LeaveLoop(kind)) /\ audio_frame' = audio_frame
  /\ UNCHANGED <<args, CUSTOM_KEYWORD_PATH, porcupine, recorder, calls,
                 last_trigger_time, keyword_index, current_time, clock,
                 matches>>

\* audio_frame = recorder.read()
ReadFrame ==
  /\ pc = "read"
  /\ \/ pc' = "process" /\ audio_frame' = "unprocessed" /\ UNCHANGED <<printed, exc>>
     \/ (\E kind \in Raised : LeaveLoop(kind)) /\ audio_frame' = audio_frame
  /\ UNCHANGED <<args, CUSTOM_KEYWORD_PATH, porcupine, recorder, calls,
                 last_trigger_time, keyword_index, current_time, clock,
                 matches>>

\* Variant: the match test is off by one.
IsMatchOffByOne(k) == k >= -1

\* if keyword_index >= 0
IsMatch(k) == k >= 0

\* keyword_index = porcupine.process(audio_frame): -1 for "no match", the
\* index of the one registered keyword for "match".
ProcessFrame ==
  /\ pc = "process"
  /\ \/ /\ \E k \in {-1, 0} :
             /\ IsMatch(k) => Len(matches) < MaxMatches
             /\ keyword_index' = k
        /\ audio_frame' = "processed"
        /\ pc' = "debounce"
        /\ UNCHANGED <<printed, exc>>
     \/ /\ \E kind \in Raised : LeaveLoop(kind)
        /\ keyword_index' = keyword_index
        /\ audio_frame' = audio_frame
  /\ UNCHANGED <<args, CUSTOM_KEYWORD_PATH, porcupine, recorder, calls,
                 last_trigger_time, current_time, clock, matches>>

\* Variant: the comparison is not strict.
ShouldTriggerAtLeast(now, last) == now - last >= DEBOUNCE_SECONDS

\* Variant: last_trigger_time is left out of the comparison.
ShouldTriggerNoLast(now, last) == now > DEBOUNCE_SECONDS

\* Variant: the operands of the subtraction are swapped.
ShouldTriggerSwapped(now, last) == last - now > DEBOUNCE_SECONDS

\* current_time - last_trigger_time > DEBOUNCE_SECONDS
ShouldTrigger(now, last) == now - last > DEBOUNCE_SECONDS

\* Variant: the timestamp is also taken over from a suppressed match.
NextTriggerTimeAlways(now, last) == now

\* if current_time - last_trigger_time > DEBOUNCE_SECONDS:
\*     last_trigger_time = current_time
\* The value of last_trigger_time after the test.
NextTriggerTime(now, last) == IF ShouldTrigger(now, last) THEN now ELSE last

\* The history entry of a match read at time now: whether handling it
\* changed last_trigger_time (updated), whether the action was called for it
\* (fired) and whether that call returned.
MatchEntry(now, changed) ==
  [t |-> now, updated |-> changed, fired |-> FALSE, returned |-> FALSE]

\* if keyword_index >= 0:
\*     current_time = time.time()
\*     if current_time - last_trigger_time > DEBOUNCE_SECONDS:
\*         last_trigger_time = current_time
Debounce ==
  /\ pc = "debounce"
  /\ IF IsMatch(keyword_index)
       THEN \E now \in ClockValues :
              /\ now >= clock
              /\ clock' = now
              /\ current_time' = now
              /\ last_trigger_time' = NextTriggerTime(now, last_trigger_time)
              /\ pc' = IF ShouldTrigger(now, last_trigger_time)
                         THEN "action" ELSE "read"
              /\ matches' = Append(matches,
                              MatchEntry(now, last_trigger_time' # last_trigger_time))
       ELSE /\ pc' = "read"
            /\ UNCHANGED <<clock, current_time, matches, last_trigger_time>>
  /\ UNCHANGED <<audio_frame, args, CUSTOM_KEYWORD_PATH, porcupine, recorder,
                 calls, keyword_index, exc, printed>>

\* The history entry of the match being handled, marked as having invoked
\* the action.
MarkFired(ms) == [ms EXCEPT ![Len(ms)].fired = TRUE]

\* The same entry when the call of the action has returned.
MarkReturned(ms) == [ms EXCEPT ![Len(ms)].returned = TRUE]

\* on_wake_word_detected(): print, time.sleep(0.2), pyautogui.hotkey
OnWakeWordDetected ==
  /\ pc = "action"
  /\ calls' = Called("on_wake_word_detected")
  /\ \/ /\ pc' = "read"
        /\ matches' = MarkReturned(MarkFired(matches))
        /\ printed' = printed \cup {"WAKE WORD DETECTED!"}
        /\ exc' = exc
     \/ \E kind \in Raised :
          /\ pc' = "finally_stop"
          /\ matches' = MarkFired(matches)
          /\ printed' = printed \cup {"WAKE WORD DETECTED!"} \cup
                          (IF kind = "KeyboardInterrupt"
                             THEN {"Stopping Hey Jubilee listener"} ELSE {})
          /\ exc' = IF kind = "KeyboardInterrupt" THEN None ELSE "Exception"
  /\ UNCHANGED <<audio_frame, args, CUSTOM_KEYWORD_PATH, porcupine, recorder,
                 last_trigger_time, keyword_index, current_time, clock>>

\* ---------------------------------------------------------- the finally block

\* recorder.stop(), the first statement of the finally block.  If it raises,
\* the rest of the block is skipped and the exception leaves main().
FinallyStop ==
  /\ pc = "finally_stop"
  /\ calls' = Called("stop")
  /\ \/ /\ recorder' = "stopped"
        /\ pc' = "finally_delete"
        /\ exc' = exc
     \/ /\ recorder' = recorder
        /\ pc' = "raised"
        /\ exc' = "Exception"
  /\ UNCHANGED <<audio_frame, args, CUSTOM_KEYWORD_PATH, porcupine,
                 last_trigger_time, keyword_index, current_time, clock,
                 matches, printed>>

\* porcupine.delete(); print("Goodbye!"); then an exception still in flight
\* is re-raised.
FinallyDelete ==
  /\ pc = "finally_delete"
  /\ calls' = Called("delete")
  /\ \/ /\ printed' = printed \cup {"Goodbye!"}
        /\ pc' = IF exc = None THEN "returned" ELSE "raised"
        /\ exc' = exc
     \/ /\ printed' = printed
        /\ pc' = "raised"
        /\ exc' = "Exception"
  /\ UNCHANGED <<audio_frame, args, CUSTOM_KEYWORD_PATH, porcupine, recorder,
                 last_trigger_time, keyword_index, current_time, clock,
                 matches>>

Next ==
  \/ ListDevices
  \/ CheckAccessKey
  \/ InitPorcupine
  \/ InitRecorder
  \/ StartRecorder
  \/ ReadFrame
  \/ ProcessFrame
  \/ Debounce
  \/ OnWakeWordDetected
  \/ FinallyStop
  \/ FinallyDelete

Spec == Init /\ [][Next]_vars

\* ------------------------------------------------------------ properties

Terminated == pc \in {"returned", "raised"}

\* The i-th match has been handled to the end: its call of the action, if
\* any, has been made.
Settled(i) == i < Len(matches) \/ pc # "action"

Fired(i) == matches[i].fired

\* Consecutive matches: i and i + 1.
Pairs == {i \in 1..Len(matches) : i + 1 <= Len(matches)}

\* C1: any two invocations of the action are made on matches whose
\* timestamps differ by strictly more than DEBOUNCE_SECONDS.
C1_AtMostOncePerInterval ==
  \A i, j \in 1..Len(matches) :
    (i < j /\ Fired(i) /\ Fired(j)) =>
      matches[j].t - matches[i].t > DEBOUNCE_SECONDS

\* Two invocations with a suppressed match between them.
C1_Witness ==
  \E i, j, k \in 1..Len(matches) :
    i < k /\ k < j /\ Fired(i) /\ ~Fired(k) /\ Fired(j)

\* C2: the first match of the run invokes the action, provided the clock
\* reading at that match is larger than the debounce interval.
C2_FirstMatchFires ==
  (Len(matches) >= 1 /\ Settled(1) /\ matches[1].t > DEBOUNCE_SECONDS)
    => Fired(1)

\* The first match came after the debounce interval and has fired.
C2_Witness ==
  /\ Len(matches) = 1
  /\ matches[1].t > DEBOUNCE_SECONDS
  /\ Fired(1)
  /\ pc = "read"

\* C3 as stated: of two consecutive matches less than the debounce interval
\* apart, only the first invokes the action; in particular the second does
\* not.  (Stated for runs whose first match comes after the debounce
\* interval, so that the run's first match has fired.)
C3_Original ==
  \A i \in Pairs :
    (matches[1].t > DEBOUNCE_SECONDS /\ Settled(i + 1)
       /\ matches[i + 1].t - matches[i].t < DEBOUNCE_SECONDS)
      => ~Fired(i + 1)

\* C3 amended: of two consecutive matches less than the debounce interval
\* apart, if the first invoked the action then the second does not, and the
\* step that suppresses it goes on to the next frame with no exception.
C3_SecondSuppressedAfterFiring ==
  /\ [](\A i \in Pairs :
          (Fired(i) /\ matches[i + 1].t - matches[i].t < DEBOUNCE_SECONDS)
            => ~Fired(i + 1))
  /\ [][(/\ pc = "debounce"
         /\ Len(matches') = Len(matches) + 1
         /\ Len(matches) >= 1
         /\ Fired(Len(matches))
         /\ matches'[Len(matches')].t - matches[Len(matches)].t < DEBOUNCE_SECONDS)
        => (pc' = "read" /\ exc' = exc /\ printed' = printed)]_vars

\* A match that fired, then one less than the interval later, suppressed.
C3_Witness ==
  \E i \in Pairs :
    /\ Fired(i)
    /\ matches[i + 1].t - matches[i].t < DEBOUNCE_SECONDS
    /\ ~Fired(i + 1)
    /\ (i + 1 = Len(matches) => pc = "read")

\* C4 as stated: of two consecutive matches more than the debounce interval
\* apart, both invoke the action.  (Stated for runs whose first match comes
\* after the debounce interval, so that the run's first match has fired.)
C4_Original ==
  \A i \in Pairs :
    (matches[1].t > DEBOUNCE_SECONDS /\ Settled(i + 1) /\ matches[i + 1].t - matches[i].t > DEBOUNCE_SECONDS)
      => (Fired(i) /\ Fired(i + 1))

\* C4 amended: of two consecutive matches more than the debounce interval
\* apart, the second invokes the action.
C4_SecondFires ==
  \A i \in Pairs :
    (Settled(i + 1) /\ matches[i + 1].t - matches[i].t > DEBOUNCE_SECONDS)
      => Fired(i + 1)

\* A suppressed match, then one more than the interval later, which fired.
C4_Witness ==
  \E i \in Pairs :
    /\ ~Fired(i)
    /\ matches[i + 1].t - matches[i].t > DEBOUNCE_SECONDS
    /\ Fired(i + 1)

\* C5: a loop iteration whose detector result is "no match" does not invoke
\* the action and changes nothing: last_trigger_time, the history, the
\* output and the calls made are as before, and the loop reads on.
C5_NoMatchNoEffect ==
  [][(pc = "debounce" /\ keyword_index < 0)
       => (/\ pc' = "read"
           /\ UNCHANGED <<last_trigger_time, matches, printed, calls, exc,
                          recorder, porcupine>>)]_vars

\* A "no match" iteration has just ended, after an earlier invocation.
C5_Witness ==
  /\ pc = "read"
  /\ keyword_index < 0
  /\ \E i \in 1..Len(matches) : Fired(i)

\* recorder.start() returned, so the while loop was entered.
LoopEntered == recorder \in {"started", "stopped"}

\* pvporcupine.create returned a detector.
Created == porcupine.access_key # None

\* A KeyboardInterrupt was caught by the except clause of the loop.
Interrupted == "Stopping Hey Jubilee listener" \in printed

\* C6: after an interrupt inside the loop, recorder.stop and
\* porcupine.delete have both been called when the process exits, also when
\* one of the two raises.
C6_BothReleasedOnInterrupt ==
  (Terminated /\ Interrupted) => (calls.stop >= 1 /\ calls.delete >= 1)

\* An error was raised while creating the detector, constructing the
\* recorder or starting it.
InitFailed ==
  \/ printed \cap (CreateOutcomes \ {"ok"}) # {}
  \/ "Error initializing audio recorder" \in printed
  \/ (calls.start = 1 /\ recorder = "constructed")

\* C7: after an error during initialisation the loop is not entered, the
\* action is not invoked, and a detector that was created has been released
\* when the process exits.
C7_InitErrorReleasesAll ==
  (Terminated /\ InitFailed) =>
    (~LoopEntered /\ matches = <<>> /\ (Created => calls.delete >= 1))

\* C8: with the placeholder or an empty access key, pvporcupine.create is
\* never called, no recorder is opened and the loop never starts.
C8_NoInitWithoutCredential ==
  args.access_key \in {PLACEHOLDER_KEY, ""} =>
    (calls.create = 0 /\ calls.PvRecorder = 0 /\ ~LoopEntered)

\* C9: with --list-devices, whatever the other arguments, no detector is
\* created, no recorder is opened or started, the loop is not entered and
\* the action is not invoked: main() lists the devices and returns.
C9_ListDevicesOnly ==
  args.list_devices =>
    /\ pc \in {"main", "returned"}
    /\ calls.create = 0 /\ calls.PvRecorder = 0 /\ calls.start = 0
    /\ ~Created /\ recorder = None
    /\ matches = <<>>
    /\ (pc = "returned" => calls.get_available_devices = 1)

\* --list-devices given together with --use-jarvis, a keyword path and an
\* access key: the devices were listed and main() has returned.
C9_Witness ==
  /\ args.list_devices /\ args.use_jarvis
  /\ args.keyword_path = "cli.ppn" /\ args.access_key = "key"
  /\ pc = "returned"
  /\ calls.get_available_devices = 1

\* C10: with matches at t = 0.0, 1.0 and 2.1 (and last_trigger_time
\* initially 0), the action is invoked at t = 0.0 and at t = 2.1 only.
C10_Scenario ==
  (/\ Len(matches) = 3 /\ Settled(3)
   /\ matches[1].t = 0 /\ matches[2].t = 10 /\ matches[3].t = 21)
    => (Fired(1) /\ ~Fired(2) /\ Fired(3))

\* C11: whenever --use-jarvis is given and a detector is created, it is
\* created with the built-in "jarvis" keyword and no keyword file, whatever
\* --keyword-path and JUBILEE_KEYWORD_PATH are.
C11_UseJarvisSelectsBuiltin ==
  (args.use_jarvis /\ Created) =>
    (porcupine.keywords = "jarvis" /\ porcupine.keyword_paths = None)

\* The matches before the i-th that invoked the action.
FiredBefore(i) == {j \in 1..(i - 1) : Fired(j)}

\* The timestamp of the most recent invocation before the i-th match, or
\* the initial value 0 of last_trigger_time when there is none.
TriggerTimeBefore(i) ==
  IF FiredBefore(i) = {} THEN 0
  ELSE matches[CHOOSE j \in FiredBefore(i) : \A k \in FiredBefore(i) : k <= j].t

\* C12: a match invokes the action exactly when its timestamp is strictly
\* more than DEBOUNCE_SECONDS after last_trigger_time, and then exactly once,
\* with last_trigger_time set to its timestamp.  Otherwise, equality
\* included, it is suppressed: last_trigger_time, the calls made and the
\* output are unchanged and the loop reads on; the action is only ever
\* called in the iteration of a match that passed the test.
C12_StrictComparison ==
  /\ [](\A i \in 1..Len(matches) :
          Settled(i) =>
            (Fired(i) <=> matches[i].t - TriggerTimeBefore(i) > DEBOUNCE_SECONDS))
  /\ [](calls.on_wake_word_detected
          = Cardinality({i \in 1..Len(matches) : Fired(i)}))
  /\ [][(pc = "debounce" /\ keyword_index >= 0) =>
          IF current_time' - last_trigger_time > DEBOUNCE_SECONDS
            THEN last_trigger_time' = current_time' /\ pc' = "action"
            ELSE /\ pc' = "read"
                 /\ UNCHANGED <<last_trigger_time, calls, printed, exc>>]_vars
  /\ [][calls'.on_wake_word_detected # calls.on_wake_word_detected =>
          /\ calls'.on_wake_word_detected = calls.on_wake_word_detected + 1
          /\ pc = "action" /\ keyword_index >= 0
          /\ matches[Len(matches)].t = current_time
          /\ last_trigger_time = current_time
          /\ ~Fired(Len(matches))]_vars

\* A match exactly DEBOUNCE_SECONDS after last_trigger_time was suppressed
\* and a "no match" iteration has followed it.
C12_Witness ==
  /\ pc = "read" /\ keyword_index < 0
  /\ \E i \in 1..Len(matches) :
       /\ matches[i].t - TriggerTimeBefore(i) = DEBOUNCE_SECONDS
       /\ ~Fired(i)
       /\ FiredBefore(i) # {}

\* C13 as stated: handling a match changes last_trigger_time if and only if
\* the action is invoked to completion for that match.
C13_Original ==
  \A i \in 1..Len(matches) :
    Settled(i) => (matches[i].updated <=> matches[i].returned)

\* C13 amended: handling a match changes last_trigger_time if and only if
\* the action is called for that match, whether or not the call returns; no
\* other step of the loop changes it, and the new value is the timestamp of
\* that match.
C13_UpdatedIffInvoked ==
  /\ [](\A i \in 1..Len(matches) :
          Settled(i) => (matches[i].updated <=> Fired(i)))
  /\ [][last_trigger_time' # last_trigger_time =>
          /\ pc = "debounce" /\ keyword_index >= 0
          /\ pc' = "action"
          /\ last_trigger_time' = matches'[Len(matches')].t]_vars

\* The call of the action raised or was interrupted after
\* last_trigger_time had been set.
C13_Witness ==
  /\ pc = "finally_stop"
  /\ matches # <<>>
  /\ matches[Len(matches)].updated
  /\ Fired(Len(matches))
  /\ ~matches[Len(matches)].returned
  /\ last_trigger_time = matches[Len(matches)].t

\* C14: when the loop is left by an error other than an interrupt, the error
\* leaves main() and recorder.stop and porcupine.delete have both been
\* called.
C14_ErrorPropagatesAndReleases ==
  (Terminated /\ LoopEntered /\ ~Interrupted) =>
    (pc = "raised" /\ calls.stop >= 1 /\ calls.delete >= 1)

\* C15: reads and detector calls alternate.  No frame is waiting when a
\* frame is read; the frame read is the one given to the detector, once;
\* and when a frame is read, every action call that was due has been made
\* and has returned.
C15_OneFrameAtATime ==
  /\ [](pc = "read" => audio_frame # "unprocessed")
  /\ [](pc = "process" => audio_frame = "unprocessed")
  /\ [](pc \in {"debounce", "action"} => audio_frame = "processed")
  /\ [][audio_frame' # audio_frame =>
          \/ /\ pc = "read" /\ pc' = "process"
             /\ audio_frame' = "unprocessed"
             /\ \A i \in 1..Len(matches) :
                  matches[i].updated => (Fired(i) /\ matches[i].returned)
          \/ /\ pc = "process" /\ audio_frame = "unprocessed"
             /\ audio_frame' = "processed"]_vars

\* An action call has returned and the loop is about to read the next frame.
C15_Witness ==
  /\ pc = "read"
  /\ audio_frame = "processed"
  /\ matches # <<>>
  /\ matches[Len(matches)].returned

\* C16: a match more than DEBOUNCE_SECONDS after the most recent invocation
\* invokes the action, however many suppressed matches lie between them.
C16_WindowFromLastFiring ==
  \A j, i \in 1..Len(matches) :
    (/\ j < i /\ Settled(i)
     /\ Fired(j)
     /\ \A k \in (j + 1)..(i - 1) : ~Fired(k)
     /\ matches[i].t - matches[j].t > DEBOUNCE_SECONDS)
      => Fired(i)

\* An invocation, a suppressed match, and a second invocation less than
\* DEBOUNCE_SECONDS after the suppressed match.
C16_Witness ==
  \E j, k, i \in 1..Len(matches) :
    /\ j < k /\ k < i
    /\ Fired(j) /\ ~Fired(k) /\ Fired(i)
    /\ matches[i].t - matches[k].t < DEBOUNCE_SECONDS

\* A release call has been made.
Released == calls.stop >= 1 \/ calls.delete >= 1

\* C17: porcupine.delete and recorder.stop are each called at most once,
\* recorder.stop only after recorder.start; once either was called, no frame
\* is read, no detection is made and the action is not called.
C17_NoUseAfterRelease ==
  /\ [](/\ calls.delete <= 1
        /\ calls.stop <= 1
        /\ (calls.stop >= 1 => calls.start >= 1)
        /\ (Released => pc \in {"finally_delete", "returned", "raised"}))
  /\ [][Released =>
          /\ UNCHANGED <<audio_frame, keyword_index, matches>>
          /\ calls'.on_wake_word_detected = calls.on_wake_word_detected
          /\ calls'.start = calls.start]_vars

\* Both release calls were made, after a run of the loop with a match, and
\* main() has returned.
C17_Witness ==
  /\ pc = "returned"
  /\ calls.stop = 1 /\ calls.delete = 1
  /\ matches # <<>>

====
